---------------------------- MODULE Spec2Model ----------------------------
(***************************************************************************)
(* Model of get_metrics (src/tools.py): the offline evaluation metrics of  *)
(* a recommender engine (catalog coverage, precision, recall, MAP and      *)
(* diversity), computed over three in-memory tables.                       *)
(*                                                                         *)
(* Tables are sequences of records (row order is part of the value).       *)
(* Numbers that pandas holds as floats are exact rationals <<n, d>> with   *)
(* d > 0 in lowest terms; NaN is <<0, 0>>.  Floating-point rounding error  *)
(* is outside the model.  A standard deviation is carried as its square    *)
(* (the sample variance), which is rational.                               *)
(***************************************************************************)
EXTENDS Integers, Sequences, FiniteSets

VARIABLES
    name,             \* argument: name of the recommender engine
    recommendations,  \* argument: rows [cid, article_id, sort_column]
    true_labels,      \* argument: [columns, rows]; rows [cid, article_id(, interested)]
    articles_df,      \* argument: rows [index, vector]
    k,                \* argument: the cutoff, used in the column names only
    pc,               \* position of the call inside get_metrics
    error,            \* the exception a call ended with ("" when none)
    summary,          \* local: the summary dict [columns, data]
    recs,             \* local: the working table [columns, rows]
    prec_xcid,        \* local: per-customer precision
    rec_xcid,         \* local: per-customer recall
    map_xcid,         \* local: per-customer MAP
    sims_df,          \* local: flattened pairwise similarity table
    recs_diversity,   \* local: customer pairs joined to their score
    diversity_x_cid,  \* local: per-customer diversity
    returned,         \* the value the last completed call returned (<<>> when none)
    previous          \* the value the completed call before it returned

inputs == <<name, recommendations, true_labels, articles_df, k>>
locals == <<summary, recs, prec_xcid, rec_xcid, map_xcid, sims_df,
            recs_diversity, diversity_x_cid>>
vars == <<name, recommendations, true_labels, articles_df, k, pc, error,
          summary, recs, prec_xcid, rec_xcid, map_xcid, sims_df,
          recs_diversity, diversity_x_cid, returned, previous>>

-----------------------------------------------------------------------------
(* Bounds of the input space.                                              *)

MaxRecs == 3        \* rows of recommendations, ranking inputs
MaxLabels == 2      \* rows of true_labels, ranking inputs
MaxCatalogRecs == 4 \* rows of recommendations, catalog inputs

Customers == {1, 2}
Articles == {"A01", "A02", "A03"}
RankedArticles == {"A01", "A02"}
SortValues == {1, 2}
Vectors == {<<1, 0>>, <<3, 4>>}
KDefault == 5
KValues == {KDefault, 10}
EngineName == "engine"

-----------------------------------------------------------------------------
(* Exact rational arithmetic.                                              *)

NaN == <<0, 0>>
IsNaN(x) == x[2] = 0

Abs(n) == IF n < 0 THEN -n ELSE n

RECURSIVE Gcd(_, _)
Gcd(a, b) == IF b = 0 THEN a ELSE Gcd(b, a % b)

Rat(n, d) ==
    IF d = 0 THEN NaN
    ELSE LET g == Gcd(Abs(n), Abs(d))
             s == IF d < 0 THEN -1 ELSE 1
         IN  <<(s * n) \div g, (s * d) \div g>>

Zero == <<0, 1>>
One == <<1, 1>>

RAdd(x, y) == IF IsNaN(x) \/ IsNaN(y) THEN NaN
              ELSE Rat(x[1] * y[2] + y[1] * x[2], x[2] * y[2])
RSub(x, y) == IF IsNaN(x) \/ IsNaN(y) THEN NaN
              ELSE Rat(x[1] * y[2] - y[1] * x[2], x[2] * y[2])
RMul(x, y) == IF IsNaN(x) \/ IsNaN(y) THEN NaN
              ELSE Rat(x[1] * y[1], x[2] * y[2])
RDiv(x, y) == IF IsNaN(x) \/ IsNaN(y) THEN NaN
              ELSE Rat(x[1] * y[2], x[2] * y[1])
RLeq(x, y) == ~IsNaN(x) /\ ~IsNaN(y) /\ x[1] * y[2] <= y[1] * x[2]
RLt(x, y) == ~IsNaN(x) /\ ~IsNaN(y) /\ x[1] * y[2] < y[1] * x[2]

(* Series.sum(), Series.mean() and Series.std() (ddof = 1) of a sequence   *)
(* of rationals; NaN entries are skipped, as pandas does.                  *)
RECURSIVE SeriesSum(_)
SeriesSum(s) ==
    IF s = <<>> THEN Zero
    ELSE IF IsNaN(Head(s)) THEN SeriesSum(Tail(s))
    ELSE RAdd(Head(s), SeriesSum(Tail(s)))

RECURSIVE SeriesCount(_)
SeriesCount(s) ==
    IF s = <<>> THEN 0
    ELSE (IF IsNaN(Head(s)) THEN 0 ELSE 1) + SeriesCount(Tail(s))

SeriesMean(s) == Rat(SeriesSum(s)[1], SeriesSum(s)[2] * SeriesCount(s))

SeriesVar(s) ==
    LET m == SeriesMean(s)
        n == SeriesCount(s)
        sq == [i \in 1..Len(s) |->
                 IF IsNaN(s[i]) THEN NaN
                 ELSE RMul(RSub(s[i], m), RSub(s[i], m))]
    IN  IF n < 2 THEN NaN
        ELSE RDiv(SeriesSum(sq), <<n - 1, 1>>)

(* Python's round(x, 4) of x = p / q, p >= 0, q > 0: to the nearest        *)
(* multiple of 1/10000, ties to even.                                      *)
Round4(p, q) ==
    LET scaled == 10000 * p
        f == scaled \div q
        r == scaled % q
        u == IF 2 * r < q THEN f
             ELSE IF 2 * r > q THEN f + 1
             ELSE IF f % 2 = 0 THEN f ELSE f + 1
    IN  Rat(u, 10000)

-----------------------------------------------------------------------------
(* Table helpers.                                                          *)

RECURSIVE Unique(_)
\* Series.unique(): the distinct values in order of first appearance.
Unique(s) ==
    IF s = <<>> THEN <<>>
    ELSE LET init == Unique(SubSeq(s, 1, Len(s) - 1))
             last == s[Len(s)]
         IN  IF \E i \in 1..Len(init) : init[i] = last THEN init
             ELSE Append(init, last)

Range(s) == {s[i] : i \in 1..Len(s)}

NUnique(s) == Cardinality(Range(s))

Column(rows, c) == [i \in 1..Len(rows) |-> rows[i][c]]

RECURSIVE SortedSeq(_)
\* The elements of a set of integers in ascending order (groupby's keys).
SortedSeq(S) ==
    IF S = {} THEN <<>>
    ELSE LET m == CHOOSE x \in S : \A y \in S : x <= y
         IN  <<m>> \o SortedSeq(S \ {m})

GroupKeys(rows) == SortedSeq(Range(Column(rows, "cid")))

GroupRows(rows, c) == SelectSeq(rows, LAMBDA r : r.cid = c)

HasColumn(table, c) == c \in table.columns


-----------------------------------------------------------------------------
(* Lines 65-77: the summary dict and the left merge.                       *)

NewSummary(n) == [index |-> <<n>>, columns |-> <<>>, data |-> <<>>]

Extend(s, cols, values) ==
    [index |-> s.index, columns |-> s.columns \o cols, data |-> s.data \o values]

Matches(l, right) ==
    SelectSeq(right.rows,
              LAMBDA r : r.cid = l.cid /\ r.article_id = l.article_id)

\* The rows a left row becomes: one per matching right row, or one row with
\* the right table's columns missing (NaN) when nothing matches.
MergeRow(l, right) ==
    LET m == Matches(l, right)
    IN  IF HasColumn(right, "interested")
        THEN IF m = <<>>
             THEN <<[cid |-> l.cid, article_id |-> l.article_id,
                     sort_column |-> l.sort_column, interested |-> NaN]>>
             ELSE [i \in 1..Len(m) |->
                     [cid |-> l.cid, article_id |-> l.article_id,
                      sort_column |-> l.sort_column,
                      interested |-> m[i].interested]]
        ELSE IF m = <<>> THEN <<l>> ELSE [i \in 1..Len(m) |-> l]

RECURSIVE MergeRows(_, _)
MergeRows(left, right) ==
    IF left = <<>> THEN <<>>
    ELSE MergeRow(Head(left), right) \o MergeRows(Tail(left), right)

\* pd.merge(left, right, how="left", on=[customer_id, "article_id"])
Merge(left, right) ==
    [columns |-> {"cid", "article_id", "sort_column"} \cup right.columns,
     rows |-> MergeRows(left, right)]

-----------------------------------------------------------------------------
(* Lines 78-81: catalog coverage.                                          *)

CatCov(recommended, catalog) ==
    Round4(100 * NUnique(Column(recommended, "article_id")),
           NUnique(Column(catalog, "index")))

-----------------------------------------------------------------------------
(* Lines 83-98: precision and recall.                                      *)

RecallDenominator == 10

FillNa(rows) ==
    [i \in 1..Len(rows) |->
        [rows[i] EXCEPT !.interested = IF IsNaN(@) THEN Zero ELSE @]]

\* The index of a groupby(customer_id) aggregate.
CustomersOf(rows) == Range(Column(rows, "cid"))

\* The values of a per-customer series, in the order of its index.
Values(xcid) ==
    LET keys == SortedSeq(DOMAIN xcid)
    IN  [i \in 1..Len(keys) |-> xcid[keys[i]]]

GroupPrecision(g) == SeriesMean(Column(g, "interested"))

\* Faulty variant of GroupRecall: the sum divided by the argument k.
GroupRecallOverK(g) == RDiv(SeriesSum(Column(g, "interested")), <<k, 1>>)

GroupRecall(g) == RDiv(SeriesSum(Column(g, "interested")), <<RecallDenominator, 1>>)

PrecXCid(rows) == [c \in CustomersOf(rows) |-> GroupPrecision(GroupRows(rows, c))]

RecXCid(rows) == [c \in CustomersOf(rows) |-> GroupRecall(GroupRows(rows, c))]

-----------------------------------------------------------------------------
(* Lines 100-117: MAP.                                                     *)

\* Faulty variant of Before: the sort column ascending.
BeforeAscending(a, b) ==
    \/ a.cid > b.cid
    \/ a.cid = b.cid /\ a.sort_column < b.sort_column

\* a sorts strictly before b under by=[customer_id, sort_column],
\* ascending=[False, False]
Before(a, b) ==
    \/ a.cid > b.cid
    \/ a.cid = b.cid /\ a.sort_column > b.sort_column

\* r placed after every row it does not sort strictly before (a stable sort)
Insert(r, sorted) ==
    LET p == Cardinality({i \in 1..Len(sorted) : ~Before(r, sorted[i])})
    IN  SubSeq(sorted, 1, p) \o <<r>> \o SubSeq(sorted, p + 1, Len(sorted))

RECURSIVE SortRows(_)
SortRows(rows) ==
    IF rows = <<>> THEN <<>>
    ELSE Insert(rows[Len(rows)], SortRows(SubSeq(rows, 1, Len(rows) - 1)))

\* The rows of rows[i]'s customer at positions 1..i.
Expanding(rows, i) ==
    SelectSeq(SubSeq(rows, 1, i), LAMBDA r : r.cid = rows[i].cid)

\* Faulty variant of IntraMap: the running precision not multiplied by the label.
IntraMapUnweighted(sum, count, interested) == RDiv(sum, count)

IntraMap(sum, count, interested) == RMul(RDiv(sum, count), interested)

WithIntraMap(rows) ==
    [i \in 1..Len(rows) |->
        LET sum == SeriesSum(Column(Expanding(rows, i), "interested"))
            count == <<Len(Expanding(rows, i)), 1>>
        IN  [cid |-> rows[i].cid, article_id |-> rows[i].article_id,
             sort_column |-> rows[i].sort_column,
             interested |-> rows[i].interested,
             expanding_rolling_sum |-> sum,
             expanding_rolling_count |-> count,
             intra_map_at_k |-> IntraMap(sum, count, rows[i].interested)]]

GroupMap(g) == SeriesMean(Column(g, "intra_map_at_k"))

MapXCid(rows) == [c \in CustomersOf(rows) |-> GroupMap(GroupRows(rows, c))]

-----------------------------------------------------------------------------
(* Lines 119-131: the similarity matrix and its flattened table.           *)

RECURSIVE Dot(_, _)
Dot(u, v) ==
    IF u = <<>> THEN 0 ELSE Head(u) * Head(v) + Dot(Tail(u), Tail(v))

\* The Euclidean norm; the vectors of the model have integer norms.
Norm(u) == CHOOSE n \in 0..Dot(u, u) : n * n = Dot(u, u)

\* sklearn's cosine_similarity of two rows: the dot product of the rows
\* after each is divided by its norm (a zero row stays zero).
CosineSimilarity(u, v) ==
    IF Norm(u) = 0 \/ Norm(v) = 0 THEN Zero
    ELSE Rat(Dot(u, v), Norm(u) * Norm(v))

\* articles_df[articles_df.index.isin(recs["article_id"].unique())]
Selected(catalog, rows) ==
    SelectSeq(catalog,
              LAMBDA a : a.index \in Range(Unique(Column(rows, "article_id"))))

ProdsSim(X) ==
    [i \in 1..Len(X) |->
        [j \in 1..Len(X) |-> CosineSimilarity(X[i].vector, X[j].vector)]]

\* The row and column labels given to the similarity matrix.
SimsLabels(rows) == Unique(Column(rows, "article_id"))

\* sims_mat.unstack().reset_index(): one row per (column label, row label),
\* column by column.
SimsDf(prods, labels) ==
    LET n == Len(labels)
    IN  [t \in 1..(n * n) |->
            LET j == ((t - 1) \div n) + 1
                i == ((t - 1) % n) + 1
            IN  [aid_01 |-> labels[j], aid_02 |-> labels[i],
                 score |-> prods[i][j]]]

-----------------------------------------------------------------------------
(* Lines 133-147: diversity.                                               *)

\* recs.groupby(customer_id)["article_id"].apply(list).reset_index()
Grouped(rows) ==
    LET keys == GroupKeys(rows)
    IN  [g \in 1..Len(keys) |->
            [cid |-> keys[g],
             article_id |-> Column(GroupRows(rows, keys[g]), "article_id")]]

RECURSIVE Combinations2(_)
\* list(itertools.combinations(x, 2))
Combinations2(x) ==
    IF Len(x) < 2 THEN <<>>
    ELSE [j \in 1..(Len(x) - 1) |-> <<x[1], x[j + 1]>>] \o Combinations2(Tail(x))

\* One row per element of combs; a row whose list is empty stays as one row
\* whose combs is NaN, written <<>> here.
ExplodeRow(r) ==
    LET combs == Combinations2(r.article_id)
    IN  IF combs = <<>>
        THEN <<[cid |-> r.cid, article_id |-> r.article_id, combs |-> <<>>]>>
        ELSE [i \in 1..Len(combs) |->
                [cid |-> r.cid, article_id |-> r.article_id, combs |-> combs[i]]]

RECURSIVE Explode(_)
Explode(grouped) ==
    IF grouped = <<>> THEN <<>>
    ELSE ExplodeRow(Head(grouped)) \o Explode(Tail(grouped))

\* zip(*recs["combs"]) iterates every element: it needs each to be a tuple.
ZipRaises(exploded) == \E i \in 1..Len(exploded) : Len(exploded[i].combs) = 0

RECURSIVE InnerMerge(_, _)
\* pd.merge(left=recs, right=sims_df, how="inner", on=["aid_01", "aid_02"])
InnerMerge(left, right) ==
    IF left = <<>> THEN <<>>
    ELSE LET l == Head(left)
             m == SelectSeq(right,
                            LAMBDA r : r.aid_01 = l.combs[1] /\ r.aid_02 = l.combs[2])
         IN  [i \in 1..Len(m) |->
                 [cid |-> l.cid, aid_01 |-> l.combs[1], aid_02 |-> l.combs[2],
                  score |-> m[i].score]]
             \o InnerMerge(Tail(left), right)

GroupDiversity(g) == RSub(One, SeriesMean(Column(g, "score")))

DiversityXCid(rows) ==
    [c \in CustomersOf(rows) |-> GroupDiversity(GroupRows(rows, c))]

-----------------------------------------------------------------------------
(* The inputs.  Recommendations hold one row per customer and article;     *)
(* the index of articles_df is unique; every row of true_labels is a       *)
(* consumption, possibly of an article the customer consumed before.       *)

ArticleOrder == <<"A01", "A02", "A03">>
Ord(a) == CHOOSE i \in 1..Len(ArticleOrder) : ArticleOrder[i] = a

SeqsUpTo(S, lo, hi) == UNION {[1..m -> S] : m \in lo..hi}

\* Every step of get_metrics groups the rows by customer or sorts them by
\* customer first, so only the order of the rows of one customer reaches a
\* result: the tables enumerated keep each customer's rows together.
RecTables(articles, sorts, n) ==
    {t \in SeqsUpTo([cid : Customers, article_id : articles, sort_column : sorts], 1, n) :
        \A i, j \in 1..Len(t) :
            i < j => /\ t[i].cid <= t[j].cid
                     /\ (t[i].cid # t[j].cid \/ t[i].article_id # t[j].article_id)}

\* The same, each customer's rows in the order of ArticleOrder.
OrderedRecTables(articles, sorts, n) ==
    {t \in RecTables(articles, sorts, n) :
        \A i, j \in 1..Len(t) :
            (i < j /\ t[i].cid = t[j].cid) => Ord(t[i].article_id) < Ord(t[j].article_id)}

\* true_labels rows all carry the same label, so their order does not reach
\* the merge: one order per multiset of rows is enumerated.
LabelKey(r) == 10 * r.cid + Ord(r.article_id)

LabelRows(rowset, n) ==
    {t \in SeqsUpTo(rowset, 0, n) :
        \A i \in 1..(Len(t) - 1) : LabelKey(t[i]) <= LabelKey(t[i + 1])}

LabelTables(articles, n) ==
    {[columns |-> {"cid", "article_id", "interested"}, rows |-> t] :
        t \in LabelRows([cid : Customers, article_id : articles,
                         interested : {One}], n)}
    \cup
    {[columns |-> {"cid", "article_id"}, rows |-> t] :
        t \in LabelRows([cid : Customers, article_id : articles], n)}

Catalogs ==
    {t \in SeqsUpTo([index : Articles, vector : Vectors], 0, Cardinality(Articles)) :
        \A i, j \in 1..Len(t) : i < j => t[i].index # t[j].index}

RankedCatalog ==
    <<[index |-> "A01", vector |-> <<1, 0>>], [index |-> "A02", vector |-> <<3, 4>>]>>

\* Ranking inputs: the labels, the sort values and k vary; the catalog is
\* complete.
InitRanking ==
    /\ recommendations \in RecTables(RankedArticles, SortValues, MaxRecs)
    /\ true_labels \in LabelTables(RankedArticles, MaxLabels)
    /\ articles_df = RankedCatalog
    /\ k \in KValues

\* Catalog inputs: the catalog (its rows, their order, their vectors) and
\* the recommended articles vary; nothing was consumed.
InitCatalog ==
    /\ recommendations \in OrderedRecTables(Articles, {1}, MaxCatalogRecs)
    /\ true_labels = [columns |-> {"cid", "article_id", "interested"}, rows |-> <<>>]
    /\ articles_df \in Catalogs
    /\ k = KDefault

Init ==
    /\ name = EngineName
    /\ InitRanking \/ InitCatalog
    /\ pc = "ready"
    /\ error = ""
    /\ summary = NewSummary(EngineName)
    /\ recs = [columns |-> {}, rows |-> <<>>]
    /\ prec_xcid = <<>>
    /\ rec_xcid = <<>>
    /\ map_xcid = <<>>
    /\ sims_df = <<>>
    /\ recs_diversity = <<>>
    /\ diversity_x_cid = <<>>
    /\ returned = <<>>
    /\ previous = <<>>

-----------------------------------------------------------------------------
(* get_metrics, one action per section of its body.                        *)

Raise(e) ==
    /\ pc' = "raised"
    /\ error' = e
    /\ UNCHANGED <<inputs, locals, returned, previous>>

\* Faulty variant of Call: the merged table also stored back into the argument.
CallInPlace ==
    /\ pc \in {"ready", "returned", "raised"}
    /\ pc' = "coverage"
    /\ error' = ""
    /\ summary' = NewSummary(name)
    /\ recs' = Merge(recommendations, true_labels)
    /\ recommendations' = recs'.rows
    /\ prec_xcid' = <<>>
    /\ rec_xcid' = <<>>
    /\ map_xcid' = <<>>
    /\ sims_df' = <<>>
    /\ recs_diversity' = <<>>
    /\ diversity_x_cid' = <<>>
    /\ previous' = returned
    /\ returned' = <<>>
    /\ UNCHANGED <<name, true_labels, articles_df, k>>

\* Lines 65-77: entry, the summary dict and the merge.
Call ==
    /\ pc \in {"ready", "returned", "raised"}
    /\ pc' = "coverage"
    /\ error' = ""
    /\ summary' = NewSummary(name)
    /\ recs' = Merge(recommendations, true_labels)
    /\ prec_xcid' = <<>>
    /\ rec_xcid' = <<>>
    /\ map_xcid' = <<>>
    /\ sims_df' = <<>>
    /\ recs_diversity' = <<>>
    /\ diversity_x_cid' = <<>>
    /\ previous' = returned
    /\ returned' = <<>>
    /\ UNCHANGED inputs

\* Lines 78-81.
CatalogCoverage ==
    /\ pc = "coverage"
    /\ NUnique(Column(articles_df, "index")) # 0
    /\ summary' = Extend(summary, <<<<"General", "Catalog coverage (%)">>>>,
                         <<CatCov(recommendations, articles_df)>>)
    /\ pc' = "precision"
    /\ UNCHANGED <<inputs, error, recs, prec_xcid, rec_xcid, map_xcid, sims_df,
                   recs_diversity, diversity_x_cid, returned, previous>>

\* Line 79: an int divided by the int 0.
RaiseZeroDivisionError ==
    /\ pc = "coverage"
    /\ NUnique(Column(articles_df, "index")) = 0
    /\ Raise("ZeroDivisionError")

\* Lines 83-90.
PrecisionAtK ==
    /\ pc = "precision"
    /\ HasColumn(recs, "interested")
    /\ recs' = [recs EXCEPT !.rows = FillNa(@)]
    /\ prec_xcid' = PrecXCid(recs'.rows)
    /\ summary' = Extend(summary,
                         <<<<"Precision@", k, "mean">>, <<"Precision@", k, "std">>>>,
                         <<SeriesMean(Values(prec_xcid')), SeriesVar(Values(prec_xcid'))>>)
    /\ pc' = "recall"
    /\ UNCHANGED <<inputs, error, rec_xcid, map_xcid, sims_df,
                   recs_diversity, diversity_x_cid, returned, previous>>

\* Line 84: recs["interested"] on a table without that column.
RaiseKeyError ==
    /\ pc = "precision"
    /\ ~HasColumn(recs, "interested")
    /\ Raise("KeyError")

\* Lines 92-98.
RecallAtK ==
    /\ pc = "recall"
    /\ rec_xcid' = RecXCid(recs.rows)
    /\ summary' = Extend(summary,
                         <<<<"Recall@", k, "mean">>, <<"Recall@", k, "std">>>>,
                         <<SeriesMean(Values(rec_xcid')), SeriesVar(Values(rec_xcid'))>>)
    /\ pc' = "map"
    /\ UNCHANGED <<inputs, error, recs, prec_xcid, map_xcid, sims_df,
                   recs_diversity, diversity_x_cid, returned, previous>>

\* Lines 100-117.
MapAtK ==
    /\ pc = "map"
    /\ recs' = [columns |-> recs.columns \cup {"expanding_rolling_sum",
                                               "expanding_rolling_count",
                                               "intra_map_at_k"},
                rows |-> WithIntraMap(SortRows(recs.rows))]
    /\ map_xcid' = MapXCid(recs'.rows)
    /\ summary' = Extend(summary,
                         <<<<"MAP@", k, "mean">>, <<"MAP@", k, "std">>>>,
                         <<SeriesMean(Values(map_xcid')), SeriesVar(Values(map_xcid'))>>)
    /\ pc' = "similarity"
    /\ UNCHANGED <<inputs, error, prec_xcid, rec_xcid, sims_df,
                   recs_diversity, diversity_x_cid, returned, previous>>

\* cosine_similarity refuses an array of no rows, and the DataFrame
\* constructor a matrix whose shape is not that of its labels.
SimilarityRaises ==
    \/ Len(Selected(articles_df, recs.rows)) = 0
    \/ Len(Selected(articles_df, recs.rows)) # Len(SimsLabels(recs.rows))

\* Lines 119-131.
Similarity ==
    /\ pc = "similarity"
    /\ ~SimilarityRaises
    /\ sims_df' = SimsDf(ProdsSim(Selected(articles_df, recs.rows)),
                         SimsLabels(recs.rows))
    /\ pc' = "diversity"
    /\ UNCHANGED <<inputs, error, summary, recs, prec_xcid, rec_xcid, map_xcid,
                   recs_diversity, diversity_x_cid, returned, previous>>

\* Lines 122-129.
RaiseValueError ==
    /\ pc = "similarity"
    /\ SimilarityRaises
    /\ Raise("ValueError")

\* Lines 133-148: the customers' pairs, their scores, and the return.
Diversity ==
    /\ pc = "diversity"
    /\ ~ZipRaises(Explode(Grouped(recs.rows)))
    /\ recs' = [columns |-> {"cid", "article_id", "combs", "aid_01", "aid_02"},
                rows |-> Explode(Grouped(recs.rows))]
    /\ recs_diversity' = InnerMerge(recs'.rows, sims_df)
    /\ diversity_x_cid' = DiversityXCid(recs_diversity')
    /\ summary' = Extend(summary,
                         <<<<"Diversity", "mean">>, <<"Diversity", "std">>>>,
                         <<SeriesMean(Values(diversity_x_cid')),
                           SeriesVar(Values(diversity_x_cid'))>>)
    /\ returned' = <<summary'>>
    /\ pc' = "returned"
    /\ UNCHANGED <<inputs, error, prec_xcid, rec_xcid, map_xcid, sims_df, previous>>

\* Line 138: zip over a float.
RaiseTypeError ==
    /\ pc = "diversity"
    /\ ZipRaises(Explode(Grouped(recs.rows)))
    /\ Raise("TypeError")

Next ==
    \/ Call
    \/ CatalogCoverage
    \/ RaiseZeroDivisionError
    \/ PrecisionAtK
    \/ RaiseKeyError
    \/ RecallAtK
    \/ MapAtK
    \/ Similarity
    \/ RaiseValueError
    \/ Diversity
    \/ RaiseTypeError

Spec == Init /\ [][Next]_vars

-----------------------------------------------------------------------------
(* What the claims speak of, read off the arguments.                       *)

RecommendedArticles == Range(Column(recommendations, "article_id"))
CatalogArticles == Range(Column(articles_df, "index"))

\* The customer's recommended items, in the order of the argument.
ItemsOf(c) == GroupRows(recommendations, c)

\* The number of rows of true_labels for the pair of recommendation row r.
Consumptions(r) == Len(Matches(r, true_labels))

Label(r) == IF Consumptions(r) > 0 THEN One ELSE Zero

FeatureOf(a) == (CHOOSE r \in Range(articles_df) : r.index = a).vector

CoverageDone == Len(summary.data) >= 1
Coverage == summary.data[1]

C2_ScoreIsFeatureSimilarity ==
    pc = "returned" =>
        /\ \A i \in 1..Len(recs_diversity) :
              recs_diversity[i].score =
                  CosineSimilarity(FeatureOf(recs_diversity[i].aid_01),
                                   FeatureOf(recs_diversity[i].aid_02))
        /\ \A c \in DOMAIN diversity_x_cid :
              (/\ Len(ItemsOf(c)) = 2
               /\ FeatureOf(ItemsOf(c)[1].article_id) = FeatureOf(ItemsOf(c)[2].article_id))
              => diversity_x_cid[c] = Zero

HasShortCustomer == \E c \in CustomersOf(recommendations) : Len(ItemsOf(c)) < 2

\* C3 (as claimed): a customer with fewer than two recommended items does
\* not make the pairing step raise.
C3_ShortCustomerDoesNotRaise ==
    HasShortCustomer => ~(pc = "raised" /\ error = "TypeError")

\* C4 (as claimed): a recommended article absent from the index of
\* articles_df does not make the similarity step raise.
C4_MissingArticleDoesNotRaise ==
    ~(RecommendedArticles \subseteq CatalogArticles)
        => ~(pc = "raised" /\ error = "ValueError")

IsExample ==
    /\ Len(recommendations) = 2
    /\ Range(recommendations) =
           {[cid |-> 1, article_id |-> "A01", sort_column |-> 1],
            [cid |-> 1, article_id |-> "A02", sort_column |-> 2]}
    /\ true_labels = [columns |-> {"cid", "article_id", "interested"},
                      rows |-> <<[cid |-> 1, article_id |-> "A01", interested |-> One]>>]

\* The running precision at which article a of customer c is evaluated.
RunningPrecision(c, a) ==
    LET r == CHOOSE r \in Range(recs.rows) : r.cid = c /\ r.article_id = a
    IN  RDiv(r.expanding_rolling_sum, r.expanding_rolling_count)

PositionOf(c, a) ==
    CHOOSE i \in 1..Len(recs.rows) : recs.rows[i].cid = c /\ recs.rows[i].article_id = a

C6_OneLabelledRowPerRecommendation ==
    /\ ~(pc = "raised" /\ error = "KeyError")
    /\ pc = "recall" =>
          /\ Len(recs.rows) = Len(recommendations)
          /\ \A i \in 1..Len(recs.rows) :
                /\ recs.rows[i].cid = recommendations[i].cid
                /\ recs.rows[i].article_id = recommendations[i].article_id
                /\ recs.rows[i].interested = Label(recommendations[i])

\* The customer's items by descending sort column (ties in argument order).
RankedItemsOf(c) == SortRows(ItemsOf(c))

Positives(items, i) ==
    Cardinality({j \in 1..i : Label(items[j]) = One})

\* (1/n) * the sum over i = 1..n of label_i * positives(1..i) / i
AveragePrecision(items) ==
    SeriesMean([i \in 1..Len(items) |->
                   RMul(Label(items[i]), Rat(Positives(items, i), i))])

\* C7 (as claimed): the MAP of a customer is the average precision of the
\* customer's recommended items by descending sort column; it is 1 for a
\* customer whose single recommended item is a true positive.
C7_MapIsAveragePrecision ==
    \A c \in DOMAIN map_xcid :
        /\ map_xcid[c] = AveragePrecision(RankedItemsOf(c))
        /\ (Len(ItemsOf(c)) = 1 /\ Label(ItemsOf(c)[1]) = One) => map_xcid[c] = One

\* The sum of the labels of the customer's rows: each row of true_labels
\* for one of the customer's recommended pairs is a label 1.
LabelSum(c) ==
    SeriesSum([i \in 1..Len(ItemsOf(c)) |-> <<Consumptions(ItemsOf(c)[i]), 1>>])

\* C8: the recall of a customer is the sum of the customer's labels over
\* 10, whatever k; with no positive label, precision and recall are 0.
C8_RecallOverTen ==
    \A c \in DOMAIN rec_xcid :
        /\ rec_xcid[c] = RDiv(LabelSum(c), <<10, 1>>)
        /\ LabelSum(c) = Zero => (prec_xcid[c] = Zero /\ rec_xcid[c] = Zero)

C8_Witness ==
    /\ k # 10
    /\ \E c, d \in DOMAIN rec_xcid :
          /\ rec_xcid[c] = <<1, 5>>
          /\ LabelSum(d) = Zero

LabelsAreBinary ==
    \A i \in 1..Len(recs.rows) : recs.rows[i].interested \in {Zero, One}

\* C10: with labels 0 or 1, every customer has 0 <= MAP <= precision <= 1.
C10_MapAtMostPrecision ==
    (pc = "similarity" /\ LabelsAreBinary) =>
        \A c \in DOMAIN map_xcid :
            /\ RLeq(Zero, map_xcid[c])
            /\ RLeq(map_xcid[c], prec_xcid[c])
            /\ RLeq(prec_xcid[c], One)

C10_Witness ==
    /\ pc = "similarity"
    /\ LabelsAreBinary
    /\ \E c \in DOMAIN map_xcid :
          /\ RLt(Zero, map_xcid[c])
          /\ RLt(map_xcid[c], prec_xcid[c])
          /\ RLt(prec_xcid[c], One)
          /\ Len(GroupRows(recs.rows, c)) >= 3

=============================================================================
